---- MODULE Spec2Model ----
(***************************************************************************)
(* RayRenderer (src/src/ray-renderer.js): registry of interactive meshes,   *)
(* selection state machine driven by update(), and the reticle / ray        *)
(* placement that follows the nearest intersection distance.                *)
(***************************************************************************)
EXTENDS Integers, Sequences, FiniteSets, TLC

\* ------------------------------------------------------------------------
\* Bounds of the model
\* ------------------------------------------------------------------------
\* hit distances reported by the intersector are 1..MaxDist
MaxDist == 2
\* the intersector reports at most MaxHits hits per object
MaxHits == 2

\* ids of the objects the host registers (THREE.Object3D ids are integers)
Ids == {1, 2}
Distances == 1..MaxDist

\* ------------------------------------------------------------------------
\* Program constants
\* ------------------------------------------------------------------------
RETICLE_DISTANCE == 3

\* JavaScript values that are not objects of the model
\* null is told apart from the object ids, which start at 1
Null == 0
Undefined == Null - 1

\* ------------------------------------------------------------------------
\* Vectors and quaternions (THREE.Vector3 / THREE.Quaternion)
\* ------------------------------------------------------------------------
Vec(x, y, z) == <<x, y, z>>
ZeroVector == Vec(0, 0, 0)

\* Vector3.add / addVectors
VAdd(a, b) == <<a[1] + b[1], a[2] + b[2], a[3] + b[3]>>

\* Vector3.multiplyScalar
MultiplyScalar(v, s) == <<v[1] * s, v[2] * s, v[3] * s>>

\* integer square root (largest r with r*r <= n)
ISqrt(n) == CHOOSE r \in 0..n : r * r <= n /\ (r + 1) * (r + 1) > n

\* Vector3.length
VLength(v) == ISqrt(v[1] * v[1] + v[2] * v[2] + v[3] * v[3])

\* Quaternions are kept with every component doubled, <<2x, 2y, 2z, 2w>>, so
\* that the unit quaternions with half-integer components stay integral.
\* new THREE.Quaternion()
IdentityQuaternion == <<0, 0, 0, 2>>

\* Vector3.applyQuaternion, on a doubled quaternion: the products below are
\* four times the library's, hence the final division.
ApplyQuaternion(v, q) ==
    LET x == v[1]  y == v[2]  z == v[3]
        qx == q[1] qy == q[2] qz == q[3] qw == q[4]
        ix == qw * x + qy * z - qz * y
        iy == qw * y + qz * x - qx * z
        iz == qw * z + qx * y - qy * x
        iw == (0 - qx) * x - qy * y - qz * z
        rx == ix * qw + iw * (0 - qx) + iy * (0 - qz) - iz * (0 - qy)
        ry == iy * qw + iw * (0 - qy) + iz * (0 - qx) - ix * (0 - qz)
        rz == iz * qw + iw * (0 - qz) + ix * (0 - qy) - iy * (0 - qx)
    IN  <<rx \div 4, ry \div 4, rz \div 4>>

\* new THREE.Vector3(0, 0, -1) of setOrientation
Forward == Vec(0, 0, -1)

\* ------------------------------------------------------------------------
\* Inputs of the public operations
\* ------------------------------------------------------------------------
\* handler records a caller may pass to add(); tag tells the records apart
HandlerSets ==
    { [tag |-> 1, onSelect |-> TRUE, onDeselect |-> TRUE],
      [tag |-> 2, onSelect |-> TRUE, onDeselect |-> TRUE] }

\* the {} of "opt_handlers || {}"
EmptyHandlers == [tag |-> 0, onSelect |-> FALSE, onDeselect |-> FALSE]

\* opt_handlers of an add(object) called without handlers: undefined
NoHandlers == [tag |-> Undefined, onSelect |-> FALSE, onDeselect |-> FALSE]

\* arguments of setPosition, setOrientation and setPointer
Positions == { Vec(1, 2, 3) }
Quaternions == { <<1, 1, 1, 1>> }
Pointers == { <<0, 0>> }

\* The camera of the constructor: an orthographic camera with an identity
\* world matrix; half the width and half the height of its frustum.
CameraHalfExtent == <<2, 1>>

\* Direction of a freshly constructed THREE.Ray: (0,0,0) in the releases that
\* still ship THREE.ImageUtils.loadTexture, (0,0,-1) in later ones.
InitialDirections == { ZeroVector, Forward }

\* Answers of raycaster.intersectObject: the distances of the hits, sorted by
\* the library, nearest first.
RECURSIVE SortedLists(_)
SortedLists(n) ==
    IF n = 0 THEN { <<>> }
    ELSE LET shorter == SortedLists(n - 1)
         IN  shorter \cup
             { Append(l, d) : l \in { k \in shorter : Len(k) = n - 1 },
                              d \in Distances } 
HitLists ==
    { l \in SortedLists(MaxHits) :
        \A i \in 1..(Len(l) - 1) : l[i] < l[i + 1] }

\* ------------------------------------------------------------------------
\* State
\* ------------------------------------------------------------------------
VARIABLES
    meshes,           \* this.meshes: ids of the registered objects
    handlers,         \* this.handlers: id -> handler record
    selected,         \* this.selected: ids currently selected
    reticleDistance,  \* this.reticleDistance
    position,         \* this.position
    orientation,      \* this.orientation
    origin,           \* this.raycaster.ray.origin
    direction,        \* this.raycaster.ray.direction
    reticlePosition,  \* this.reticle.position
    rayScaleY,        \* this.ray.scale.y (length of the beam)
    rayPosition2,     \* twice this.ray.position (midpoint of the beam)
    log,              \* what the last operation called and emitted, in order
    raised,           \* the last operation threw
    lastOp,           \* the last public operation and its argument
    ret,              \* what the last operation returned
    emitted           \* id -> the notification emitted last for it

vars == <<meshes, handlers, selected, reticleDistance, position, orientation,
          origin, direction,
          reticlePosition, rayScaleY, rayPosition2, log, raised, lastOp, ret,
          emitted>>

registry == <<meshes, handlers>>
rayState == <<position, orientation, origin, direction>>
visuals == <<reticlePosition, rayScaleY, rayPosition2>>

\* one entry of log
\* kind: what was called or emitted; id: for which object; tag: the handler
\* record of a callback; dist: the nearest hit of an intersector answer (0 for
\* none); prev: the notification emitted before this one for the same object;
\* sel: for a callback, whether the object is in this.selected while it runs
Event(kind, id, tag, dist, prev, sel) ==
    [kind |-> kind, id |-> id, tag |-> tag, dist |-> dist, prev |-> prev,
     sel |-> sel]

\* id: the object passed; arg: for add, the tag of the handler record passed;
\* prev: for add, the tag of the handler record it replaced
Op(name, id, arg, prev) == [op |-> name, id |-> id, arg |-> arg, prev |-> prev]

\* constructor
Init ==
    /\ meshes = {}
    /\ selected = {}
    /\ handlers = << >>
    /\ position = ZeroVector
    /\ orientation = IdentityQuaternion
    /\ origin = ZeroVector
    /\ direction \in InitialDirections
    /\ reticlePosition = ZeroVector
    /\ rayScaleY = 1
    /\ rayPosition2 = ZeroVector
    /\ reticleDistance = RETICLE_DISTANCE
    /\ log = << >>
    /\ raised = FALSE
    /\ lastOp = Op("new", 0, 0, 0)
    /\ ret = Undefined
    /\ emitted = [i \in Ids |-> "none"]

\* ------------------------------------------------------------------------
\* Placement of the reticle and the ray
\* ------------------------------------------------------------------------
\* The part of "this" that update() changes while it runs.
This ==
    [selected |-> selected, reticleDistance |-> reticleDistance,
     reticlePosition |-> reticlePosition, rayScaleY |-> rayScaleY,
     rayPosition2 |-> rayPosition2, log |-> << >>, raised |-> FALSE,
     emitted |-> emitted]

\* updateRaycaster_(): reticle at origin + direction * reticleDistance, the
\* beam scaled to |direction * reticleDistance| and centred half way.
updateRaycaster_(t, o, d) ==
    LET delta == MultiplyScalar(d, t.reticleDistance)
    IN  [t EXCEPT !.reticlePosition = VAdd(MultiplyScalar(d, t.reticleDistance), o),
                  !.rayScaleY = VLength(delta),
                  !.rayPosition2 = VAdd(MultiplyScalar(o, 2), delta)]

\* the argument of moveReticle_: null, or the list of hits
NullIntersections == [isNull |-> TRUE, hits |-> << >>]
Intersections(l) == [isNull |-> FALSE, hits |-> l]

\* moveReticle_ that leaves the distance alone when there is no intersection
moveReticle_keepsDistance(t, intersections, o, d) ==
    IF ~intersections.isNull /\ Len(intersections.hits) = 0
    THEN [t EXCEPT !.raised = TRUE]
    ELSE LET distance == IF ~intersections.isNull
                         THEN intersections.hits[1]
                         ELSE t.reticleDistance
         IN  updateRaycaster_([t EXCEPT !.reticleDistance = distance], o, d)

\* moveReticle_(intersections): RETICLE_DISTANCE for null, else the distance
\* of the first hit; intersections[0] of an empty list is undefined and
\* reading its distance throws.
moveReticle_(t, intersections, o, d) ==
    IF ~intersections.isNull /\ Len(intersections.hits) = 0
    THEN [t EXCEPT !.raised = TRUE]
    ELSE LET distance == IF ~intersections.isNull
                         THEN intersections.hits[1]
                         ELSE RETICLE_DISTANCE
         IN  updateRaycaster_([t EXCEPT !.reticleDistance = distance], o, d)

\* ------------------------------------------------------------------------
\* Notifications
\* ------------------------------------------------------------------------
\* this.emit(kind, mesh)
emit(t, kind, id) ==
    [t EXCEPT !.log = Append(@, Event(kind, id, 0, 0, t.emitted[id], FALSE)),
              !.emitted = [@ EXCEPT ![id] = kind]]

\* handlers.onSelect(mesh) / handlers.onDeselect(mesh), when the record has it
callback(t, kind, present, hs, id) ==
    IF present
    THEN [t EXCEPT !.log = Append(@, Event(kind, id, hs.tag, 0, "none",
                                           id \in t.selected))]
    ELSE t

\* ------------------------------------------------------------------------
\* update()
\* ------------------------------------------------------------------------
\* line 105 without its "!isSelected": selects whatever is intersected
isNewlySelected_always(isIntersected, isSelected) == isIntersected

\* line 105: newly selected
isNewlySelected(isIntersected, isSelected) == isIntersected /\ ~isSelected

\* line 114: no longer selected
isNoLongerSelected(isIntersected, isSelected) == ~isIntersected /\ isSelected

\* lines 105-111 with the two sends swapped: the 'select' notification is
\* emitted before onSelect is called
selectStep_emitFirst(t, id, isIntersected, isSelected, hasHandlers, hs) ==
    IF isNewlySelected(isIntersected, isSelected)
    THEN IF ~hasHandlers
         THEN [t EXCEPT !.selected = @ \cup {id}, !.raised = TRUE]
         ELSE callback(emit([t EXCEPT !.selected = @ \cup {id}], "select", id),
                       "onSelect", hs.onSelect, hs, id)
    ELSE t

\* lines 105-111: if it's newly selected, send onSelect; reading a callback
\* off a missing handler record throws
selectStep(t, id, isIntersected, isSelected, hasHandlers, hs) ==
    IF isNewlySelected(isIntersected, isSelected)
    THEN IF ~hasHandlers
         THEN [t EXCEPT !.selected = @ \cup {id}, !.raised = TRUE]
         ELSE emit(callback([t EXCEPT !.selected = @ \cup {id}],
                            "onSelect", hs.onSelect, hs, id),
                   "select", id)
    ELSE t

\* lines 114-121: if it's no longer selected, send onDeselect
deselectStep(t, id, isIntersected, isSelected, hasHandlers, hs, o, d) ==
    IF ~t.raised /\ isNoLongerSelected(isIntersected, isSelected)
    THEN IF ~hasHandlers
         THEN [t EXCEPT !.selected = @ \ {id}, !.raised = TRUE]
         ELSE emit(moveReticle_(callback([t EXCEPT !.selected = @ \ {id}],
                                         "onDeselect", hs.onDeselect, hs, id),
                                NullIntersections, o, d),
                   "deselect", id)
    ELSE t

\* lines 123-125: the reticle follows the intersection
reticleStep(t, isIntersected, intersects, o, d) ==
    IF ~t.raised /\ isIntersected
    THEN moveReticle_(t, Intersections(intersects), o, d)
    ELSE t

\* body of the loop of update() for one id (lines 98-125)
updateMesh(t, id, intersects, hmap, o, d) ==
    LET hasHandlers == id \in DOMAIN hmap
        hs == IF hasHandlers THEN hmap[id] ELSE EmptyHandlers
        isIntersected == Len(intersects) > 0
        isSelected == id \in t.selected
        nearest == IF isIntersected THEN intersects[1] ELSE 0
    IN  reticleStep(
            deselectStep(
                selectStep(
                    [t EXCEPT !.log = Append(@, Event("intersectObject", id, 0,
                                                      nearest, "none", FALSE))],
                    id, isIntersected, isSelected, hasHandlers, hs),
                id, isIntersected, isSelected, hasHandlers, hs, o, d),
            isIntersected, intersects, o, d)

Min(S) == CHOOSE m \in S : \A n \in S : m <= n
Max(S) == CHOOSE m \in S : \A n \in S : n <= m

\* a loop that is left after its first id
updateLoop_firstOnly(t, ids, answers, hmap, o, d) ==
    IF ids = {} \/ t.raised THEN t
    ELSE updateMesh(t, Min(ids), answers[Min(ids)], hmap, o, d)

\* for (var id in this.meshes): integer keys are visited in ascending order
RECURSIVE updateLoop(_, _, _, _, _, _)
updateLoop(t, ids, answers, hmap, o, d) ==
    IF ids = {} \/ t.raised THEN t
    ELSE LET id == Min(ids)
         IN  updateLoop(updateMesh(t, id, answers[id], hmap, o, d),
                        ids \ {id}, answers, hmap, o, d)

\* update(), the intersector answering answers[id] for each registered id
update(answers) ==
    \E t \in {updateLoop(This, meshes, answers, handlers, origin, direction)} :
        /\ selected' = t.selected
        /\ reticleDistance' = t.reticleDistance
        /\ reticlePosition' = t.reticlePosition
        /\ rayScaleY' = t.rayScaleY
        /\ rayPosition2' = t.rayPosition2
        /\ log' = t.log
        /\ raised' = t.raised
        /\ emitted' = t.emitted
        /\ lastOp' = Op("update", 0, 0, 0)
        /\ ret' = Undefined
        /\ UNCHANGED <<registry, rayState>>

\* ------------------------------------------------------------------------
\* add() and remove()
\* ------------------------------------------------------------------------
\* opt_handlers || {}
orEmpty(opt_handlers) ==
    IF opt_handlers = NoHandlers THEN EmptyHandlers ELSE opt_handlers

\* a handler record that is stored only for an id that has none yet
setHandlers_keepsFirst(hmap, id, hs) ==
    [i \in DOMAIN hmap \cup {id} |-> IF i \in DOMAIN hmap THEN hmap[i] ELSE hs]

\* this.handlers[object.id] = handlers
setHandlers(hmap, id, hs) ==
    [i \in DOMAIN hmap \cup {id} |-> IF i = id THEN hs ELSE hmap[i]]

\* tag of the record an id has, -1 without one
TagOf(hmap, id) == IF id \in DOMAIN hmap THEN hmap[id].tag ELSE Undefined

\* add() that registers the mesh and stores a handler record only when one
\* is given
add_handlersOnlyWhenGiven(object, opt_handlers) ==
    LET hs == orEmpty(opt_handlers)
    IN  /\ meshes' = meshes \cup {object}
        /\ handlers' = IF opt_handlers = NoHandlers THEN handlers
                       ELSE setHandlers(handlers, object, hs)
        /\ log' = << >>
        /\ raised' = FALSE
        /\ lastOp' = Op("add", object, hs.tag, TagOf(handlers, object))
        /\ ret' = Undefined
        /\ UNCHANGED <<selected, reticleDistance, rayState, visuals, emitted>>

\* add(object, opt_handlers)
add(object, opt_handlers) ==
    LET hs == orEmpty(opt_handlers)
    IN  /\ meshes' = meshes \cup {object}
        /\ handlers' = setHandlers(handlers, object, hs)
        /\ log' = << >>
        /\ raised' = FALSE
        /\ lastOp' = Op("add", object, hs.tag, TagOf(handlers, object))
        /\ ret' = Undefined
        /\ UNCHANGED <<selected, reticleDistance, rayState, visuals, emitted>>

\* lines 80-84 with the test the other way round: the entries are deleted
\* when there is a mesh
removeEntries_whenPresent(present, keys, id) ==
    IF present THEN keys \ {id} ELSE keys

\* lines 80-84: the entries are deleted only when there is no mesh
removeEntries(present, keys, id) == IF ~present THEN keys \ {id} ELSE keys

dropKey(hmap, keys) == [i \in DOMAIN hmap \cap keys |-> hmap[i]]

\* line 86 without its test: the deselection runs for every object
isCurrentlySelected_always(sel, id) == TRUE

\* line 86: the object is currently selected
isCurrentlySelected(sel, id) == id \in sel

\* line 91 left out: the id stays selected
deleteSelected_not(sel, id) == sel

\* line 91: delete this.selected[object.id]
deleteSelected(sel, id) == sel \ {id}

\* remove(object); reading onDeselect off a missing handler record throws
remove(object) ==
    LET id == object
        present == id \in meshes
        hmap == dropKey(handlers, removeEntries(present, DOMAIN handlers, id))
        isSelected == isCurrentlySelected(selected, id)
        throws == isSelected /\ id \notin DOMAIN hmap
        called == isSelected /\ ~throws /\ hmap[id].onDeselect
    IN  /\ meshes' = removeEntries(present, meshes, id)
        /\ handlers' = hmap
        /\ log' = IF called
                  THEN << Event("onDeselect", id, hmap[id].tag, 0, "none",
                                   id \in selected) >>
                  ELSE << >>
        /\ raised' = throws
        /\ selected' = IF isSelected /\ ~throws THEN deleteSelected(selected, id)
                       ELSE selected
        /\ lastOp' = Op("remove", id, 0, 0)
        /\ ret' = Undefined
        /\ UNCHANGED <<reticleDistance, rayState, visuals, emitted>>

\* ------------------------------------------------------------------------
\* The ray: setPosition(), setOrientation(), setPointer()
\* ------------------------------------------------------------------------
\* the visuals after updateRaycaster_() on the ray (o, d)
refresh(o, d) ==
    LET t == updateRaycaster_(This, o, d)
    IN  /\ reticlePosition' = t.reticlePosition
        /\ rayScaleY' = t.rayScaleY
        /\ rayPosition2' = t.rayPosition2

quiet(name) ==
    /\ log' = << >>
    /\ raised' = FALSE
    /\ lastOp' = Op(name, 0, 0, 0)
    /\ ret' = Undefined
    /\ UNCHANGED <<registry, selected, reticleDistance, emitted>>

\* setPosition() that also re-derives the direction from this.orientation
setPosition_recomputesDirection(vector) ==
    LET pointAt == ApplyQuaternion(Forward, orientation)
    IN  /\ position' = vector
        /\ origin' = vector
        /\ direction' = pointAt
        /\ UNCHANGED orientation
        /\ refresh(vector, pointAt)
        /\ quiet("setPosition")

setPosition(vector) ==
    /\ position' = vector
    /\ origin' = vector
    /\ UNCHANGED <<orientation, direction>>
    /\ refresh(vector, direction)
    /\ quiet("setPosition")

setOrientation(quaternion) ==
    LET pointAt == ApplyQuaternion(Forward, quaternion)
    IN  /\ orientation' = quaternion
        /\ direction' = pointAt
        /\ UNCHANGED <<position, origin>>
        /\ refresh(origin, pointAt)
        /\ quiet("setOrientation")

\* Raycaster.setFromCamera for the orthographic camera above
setFromCamera(coords) ==
    [origin |-> Vec(coords[1] * CameraHalfExtent[1], coords[2] * CameraHalfExtent[2], 0),
     direction |-> Forward]

setPointer(vector) ==
    LET ray == setFromCamera(vector)
    IN  /\ origin' = ray.origin
        /\ direction' = ray.direction
        /\ UNCHANGED <<position, orientation>>
        /\ refresh(ray.origin, ray.direction)
        /\ quiet("setPointer")

\* ------------------------------------------------------------------------
\* getSelectedMesh()
\* ------------------------------------------------------------------------
\* a loop over this.meshes instead of this.selected: the mesh registered last
selectedMesh_ofMeshes(sel, ms) == IF ms = {} THEN Null ELSE Max(ms)

\* the mesh it returns: null without a selection, else the mesh of the id
\* visited last (undefined when that id has no mesh)
selectedMesh(sel, ms) ==
    IF sel = {} THEN Null
    ELSE IF Max(sel) \in ms THEN Max(sel) ELSE Undefined

getSelectedMesh ==
    /\ ret' = selectedMesh(selected, meshes)
    /\ log' = IF Cardinality(selected) > 1
              THEN << Event("warn", 0, 0, 0, "none", FALSE) >> ELSE << >>
    /\ raised' = FALSE
    /\ lastOp' = Op("getSelectedMesh", 0, 0, 0)
    /\ UNCHANGED <<registry, selected, reticleDistance, rayState, visuals,
                   emitted>>

\* ------------------------------------------------------------------------
\* Specifications
\* ------------------------------------------------------------------------
Next ==
    \/ \E object \in Ids, hs \in HandlerSets \cup {NoHandlers} : add(object, hs)
    \/ \E object \in Ids : remove(object)
    \/ \E answers \in [meshes -> HitLists] : update(answers)
    \/ \E vector \in Positions : setPosition(vector)
    \/ \E quaternion \in Quaternions : setOrientation(quaternion)
    \/ \E vector \in Pointers : setPointer(vector)
    \/ getSelectedMesh

Spec == Init /\ [][Next]_vars

\* update() cycles only: objects are registered and the ray moves, but
\* nothing is removed
NextCycles ==
    \/ \E object \in Ids, hs \in HandlerSets \cup {NoHandlers} : add(object, hs)
    \/ \E answers \in [meshes -> HitLists] : update(answers)
    \/ \E vector \in Positions : setPosition(vector)
    \/ \E quaternion \in Quaternions : setOrientation(quaternion)
    \/ \E vector \in Pointers : setPointer(vector)

SpecCycles == Init /\ [][NextCycles]_vars

\* ------------------------------------------------------------------------
\* Properties
\* ------------------------------------------------------------------------
Callbacks == {"onSelect", "onDeselect"}

\* the notification that goes with a callback
NotificationOf(kind) == IF kind = "onSelect" THEN "select" ELSE "deselect"

\* the entries of log
Events == { log[i] : i \in 1..Len(log) }

\* the intersector's answers of the last update(): id and nearest distance
Intersected == { e \in Events : e.kind = "intersectObject" /\ e.dist > 0 }

\* C1: over update() cycles the select and deselect firings of an object
\* alternate, starting with a select: a 'select' is emitted only as the first
\* notification of the object or after its 'deselect', a 'deselect' only after
\* its 'select', every callback is at once followed by the notification of the
\* same transition, and an object is selected exactly while its last
\* notification is 'select' (so no select fires while it is selected).
C1_SelectDeselectAlternate ==
    /\ \A i \in 1..Len(log) :
        /\ log[i].kind = "select" => log[i].prev \in {"none", "deselect"}
        /\ log[i].kind = "deselect" => log[i].prev = "select"
        /\ log[i].kind \in Callbacks =>
              /\ i < Len(log)
              /\ log[i + 1].kind = NotificationOf(log[i].kind)
              /\ log[i + 1].id = log[i].id
    /\ \A o \in Ids : o \in selected <=> emitted[o] = "select"

\* C1 witness: an update() selected an object again after its deselect, and
\* an update() left an intersected, selected object without a new select
C1_Witness_Reselected ==
    /\ lastOp.op = "update"
    /\ \E e \in Events : e.kind = "select" /\ e.prev = "deselect" /\ e.id = 1
    /\ \E e \in Intersected :
          /\ e.id = 2
          /\ \A f \in Events : f.id = 2 => f.kind = "intersectObject"

\* C2: no 'select' is emitted for an object whose last notification was a
\* 'select' (two selects without a deselect in between)
C2_NoSelectTwice ==
    \A e \in Events : e.kind = "select" => e.prev # "select"

\* C3: when remove(o) has returned, o is in neither mapping
C3_RemoveClearsBothMappings ==
    lastOp.op = "remove" =>
        /\ lastOp.id \notin meshes
        /\ lastOp.id \notin DOMAIN handlers

\* C4: the update() that follows remove(o) does not query the intersector
\* for o, call a callback or emit a notification for o, or select o
C4_RemovedIsNotUpdated ==
    [][(lastOp.op = "remove" /\ lastOp'.op = "update") =>
          /\ \A i \in 1..Len(log') : log'[i].id # lastOp.id
          /\ lastOp.id \notin selected']_vars

\* C5: remove(o) of a selected o calls o's onDeselect exactly once when its
\* handler record has one and nothing else, does not throw, and leaves o
\* unselected; if o was the only selected object, getSelectedMesh() then
\* returns null.
C5_RemoveSelectedDeselects ==
    [][\A o \in Ids :
          (lastOp'.op = "remove" /\ lastOp'.id = o /\ o \in selected) =>
              /\ ~raised'
              /\ o \in DOMAIN handlers
              /\ log' = IF handlers[o].onDeselect
                        THEN << Event("onDeselect", o, handlers[o].tag, 0, "none", TRUE) >>
                        ELSE << >>
              /\ o \notin selected'
              /\ selected = {o} => selectedMesh(selected', meshes') = Null]_vars

\* C5 witness: remove(o) has called onDeselect(o) and nothing is selected
C5_Witness_RemovedWhileSelected ==
    /\ lastOp.op = "remove"
    /\ Len(log) = 1
    /\ log[1].kind = "onDeselect"
    /\ log[1].id = lastOp.id
    /\ selected = {}
    /\ selectedMesh(selected, meshes) = Null

\* C6: remove(o) of an unregistered o throws nothing, calls and emits
\* nothing and changes neither the registry, the selection, the reticle
\* distance nor anything else of the component.
C6_RemoveUnregisteredIsNoOp ==
    [][\A o \in Ids :
          (lastOp'.op = "remove" /\ lastOp'.id = o /\ o \notin meshes) =>
              /\ ~raised'
              /\ log' = << >>
              /\ UNCHANGED <<meshes, handlers, selected, reticleDistance,
                             rayState, visuals, emitted>>]_vars

\* C6 witness: remove(o) of an unregistered o while another object is
\* registered, selected and in the reticle's focus
C6_Witness_RemovedUnregistered ==
    /\ lastOp.op = "remove"
    /\ lastOp.id \notin meshes
    /\ selected # {}
    /\ reticleDistance # RETICLE_DISTANCE

\* C7: add(o, h2) on a registered o calls and emits nothing, leaves the
\* selection, the reticle and the ray alone and stores h2 for o; and every
\* callback an operation calls for an object is the one of the handler
\* record stored for it when the operation starts, so after the add it is
\* h2's and never the replaced h1's.
C7_ReAddReplacesHandlers ==
    [][/\ \A o \in Ids :
            (lastOp'.op = "add" /\ lastOp'.id = o /\ o \in meshes) =>
                /\ ~raised'
                /\ log' = << >>
                /\ UNCHANGED <<meshes, selected, reticleDistance, rayState,
                               visuals, emitted>>
                /\ o \in DOMAIN handlers'
                /\ handlers'[o].tag = lastOp'.arg
                /\ \A p \in DOMAIN handlers \ {o} : handlers'[p] = handlers[p]
       /\ \A i \in 1..Len(log') :
            log'[i].kind \in Callbacks =>
                /\ log'[i].id \in DOMAIN handlers
                /\ log'[i].tag = handlers[log'[i].id].tag]_vars

\* C7 witness: a selected object registered with record 1 was added again
\* with record 2
C7_Witness_ReAdded ==
    /\ lastOp.op = "add"
    /\ lastOp.prev = 1
    /\ lastOp.arg = 2
    /\ lastOp.id \in selected
    /\ handlers[lastOp.id].tag = 2

\* C8: after an update() in which exactly one object is intersected, at
\* nearest distance D, the reticle distance is D, the reticle is at
\* origin + direction * D and, for a unit direction, the beam is D long.
C8_SoleIntersectionSetsReticle ==
    lastOp.op = "update" =>
        \A e \in Intersected :
            Intersected = {e} =>
                /\ reticleDistance = e.dist
                /\ reticlePosition = VAdd(origin, MultiplyScalar(direction, e.dist))
                /\ VLength(direction) = 1 => rayScaleY = e.dist

\* C9: after an update() that deselected an object and found no object
\* intersected, the reticle distance is RETICLE_DISTANCE and the reticle is
\* at origin + direction * RETICLE_DISTANCE.
C9_DeselectResetsReticle ==
    (/\ lastOp.op = "update"
     /\ \E e \in Events : e.kind = "deselect"
     /\ Intersected = {}) =>
        /\ reticleDistance = RETICLE_DISTANCE
        /\ reticlePosition =
              VAdd(origin, MultiplyScalar(direction, RETICLE_DISTANCE))

\* C9 witness: such an update() with the ray away from its initial state
C9_Witness_DeselectedNoneIntersected ==
    /\ lastOp.op = "update"
    /\ \E e \in Events : e.kind = "deselect"
    /\ Intersected = {}
    /\ origin # ZeroVector
    /\ direction = ApplyQuaternion(Forward, <<1, 1, 1, 1>>)
    /\ reticlePosition # origin

\* C10: every selected id is registered
C10_SelectedAreRegistered == selected \subseteq meshes

\* C10 witness: an object is still selected after remove() of another
\* object that was selected
C10_Witness_SelectedAfterRemove ==
    /\ lastOp.op = "remove"
    /\ selected # {}
    /\ Len(log) = 1
    /\ log[1].kind = "onDeselect"

\* C11: getSelectedMesh() returns null exactly when nothing is selected and
\* otherwise an object that is registered and selected; it warns exactly
\* when more than one object is selected; it never throws and changes
\* nothing of the component.
C11_GetSelectedMesh ==
    [][lastOp'.op = "getSelectedMesh" =>
          /\ ~raised'
          /\ ret' = Null <=> selected = {}
          /\ selected # {} => ret' \in selected \cap meshes
          /\ (\E i \in 1..Len(log') : log'[i].kind = "warn")
                <=> Cardinality(selected) > 1
          /\ \A i \in 1..Len(log') : log'[i].kind = "warn"
          /\ UNCHANGED <<registry, selected, reticleDistance, rayState,
                         visuals, emitted>>]_vars

\* C11 witness: getSelectedMesh() warned with two objects selected and
\* returned one of them
C11_Witness_Ambiguous ==
    /\ lastOp.op = "getSelectedMesh"
    /\ selected = {1, 2}
    /\ \E e \in Events : e.kind = "warn"
    /\ ret \in selected

\* C12: an id is selected exactly if the last update() found it intersected
\* and it is still registered. Step by step: the set of ids the last
\* update() found intersected changes in update() only, so any other
\* operation leaves an id that stays registered selected or unselected as it
\* was, and update() leaves selected exactly the registered ids it found
\* intersected.
C12_SelectedIffIntersectedAndRegistered ==
    [][/\ lastOp'.op = "update" =>
            selected' = { e.id : e \in Intersected' } \cap meshes'
       /\ lastOp'.op # "update" =>
            \A o \in meshes \cap meshes' : o \in selected' <=> o \in selected]_vars

\* the callbacks and notifications update() owes an object: none when it
\* stays selected or unselected, else the callback its handler record has
\* and then the notification
Owed(o, was, is, hs) ==
    IF was = is THEN << >>
    ELSE LET cb == IF is THEN "onSelect" ELSE "onDeselect"
             has == IF is THEN hs.onSelect ELSE hs.onDeselect
         IN  (IF has THEN << [kind |-> cb, id |-> o, tag |-> hs.tag] >>
              ELSE << >>)
             \o << [kind |-> NotificationOf(cb), id |-> o, tag |-> 0] >>

\* the entries of a log that concern an object, in order
EntriesOf(l, o) == SelectSeq(l, LAMBDA e : e.id = o)

\* kind, id and tag of the entries of a log
Delivered(l) ==
    [i \in 1..Len(l) |-> [kind |-> l[i].kind, id |-> l[i].id, tag |-> l[i].tag]]

\* C13: when update() returns it has queried the intersector exactly once
\* for every registered object and for no other, a registered id is
\* selected exactly if its answer held a hit, and the callbacks and
\* notifications of every transition of the cycle, and no others, are
\* delivered.
C13_UpdateSettles ==
    [][lastOp'.op = "update" =>
          /\ ~raised'
          /\ \A o \in Ids \ meshes : EntriesOf(log', o) = << >>
          /\ \A o \in meshes :
                LET mine == EntriesOf(log', o)
                IN  /\ mine # << >>
                    /\ mine[1].kind = "intersectObject"
                    /\ o \in selected' <=> mine[1].dist > 0
                    /\ Delivered(Tail(mine))
                           = Owed(o, o \in selected, o \in selected',
                                  handlers[o])]_vars

\* C13 witness: an update() over two registered objects selected one and
\* deselected the other
C13_Witness_BothTransitions ==
    /\ lastOp.op = "update"
    /\ meshes = {1, 2}
    /\ \E e \in Events : e.kind = "deselect" /\ e.id = 1
    /\ \E e \in Events : e.kind = "select" /\ e.id = 2

\* C14: whenever nothing is selected, the reticle distance is
\* RETICLE_DISTANCE
C14_UnfocusedReticleAtDefault ==
    selected = {} => reticleDistance = RETICLE_DISTANCE

\* the entries of log that report an intersected object, in the order of
\* the loop
IntersectedInOrder == SelectSeq(log, LAMBDA e : e.kind = "intersectObject" /\ e.dist > 0)

\* C15: after an update() that found an object intersected, the reticle
\* distance is the nearest distance of the intersected object visited last
C15_ReticleFollowsLastIntersected ==
    (lastOp.op = "update" /\ IntersectedInOrder # << >>) =>
        reticleDistance = IntersectedInOrder[Len(IntersectedInOrder)].dist

\* C16: in every state the reticle is at origin + direction * reticleDistance
\* and the beam spans from the origin to it: its length is that of
\* direction * reticleDistance (reticleDistance for a unit direction) and
\* its midpoint is origin + direction * reticleDistance * 0.5
C16_VisualsFollowRay ==
    /\ reticlePosition = VAdd(origin, MultiplyScalar(direction, reticleDistance))
    /\ rayScaleY = VLength(MultiplyScalar(direction, reticleDistance))
    /\ rayPosition2 = VAdd(MultiplyScalar(origin, 2),
                           MultiplyScalar(direction, reticleDistance))

C19_MeshesAndHandlersAgree ==
    /\ DOMAIN handlers = meshes
    /\ ~raised

\* update() selected an object registered without handlers and then
\* deselected it: both branches read its (empty) handler record
C19_Witness_EmptyRecordProcessed ==
    /\ lastOp.op = "update"
    /\ \E o \in meshes :
          /\ handlers[o] = EmptyHandlers
          /\ \E i \in DOMAIN log : log[i].kind = "deselect" /\ log[i].id = o

\* C18: in an update() cycle every callback is immediately followed by the
\* notification of the same object and transition, and every notification
\* of an object whose handler record has the callback is immediately
\* preceded by that callback: the callback comes first and nothing of
\* another object comes between the two
C18_CallbackThenBroadcast ==
    lastOp.op = "update" =>
        \A i \in DOMAIN log :
            /\ log[i].kind \in Callbacks
               => (/\ i + 1 \in DOMAIN log
                   /\ log[i + 1].kind = NotificationOf(log[i].kind)
                   /\ log[i + 1].id = log[i].id)
            /\ (/\ log[i].kind \in {"select", "deselect"}
                /\ log[i].id \in DOMAIN handlers
                /\ IF log[i].kind = "select"
                   THEN handlers[log[i].id].onSelect
                   ELSE handlers[log[i].id].onDeselect)
               => (/\ i - 1 \in DOMAIN log
                   /\ NotificationOf(log[i - 1].kind) = log[i].kind
                   /\ log[i - 1].kind \in Callbacks
                   /\ log[i - 1].id = log[i].id
                   /\ log[i - 1].tag = handlers[log[i].id].tag)

\* one update() cycle selects one object and deselects another, both with
\* callbacks
C18_Witness_TwoTransitionsWithCallbacks ==
    /\ lastOp.op = "update"
    /\ \E i, j \in DOMAIN log :
          /\ log[i].kind = "onSelect"
          /\ log[j].kind = "onDeselect"
          /\ log[i].id # log[j].id

\* C20: whenever a callback runs, the selection already reflects the
\* transition, in update() and in remove() alike: the object is selected
\* during its onSelect and not selected during its onDeselect
C20_SelectionSettledInCallbacks ==
    \A i \in DOMAIN log :
        /\ log[i].kind = "onSelect" => log[i].sel
        /\ log[i].kind = "onDeselect" => ~log[i].sel

====
